---- MODULE Spec2Model ----
(***************************************************************************)
(* A model of sequence_processing_pipeline.QCJob: resolution of the FASTQ  *)
(* files of a project, generation of the per-project array-job script and  *)
(* command table, the sequential run loop, the quarantine filter and the   *)
(* removal of old command tables; and of TellReadJob: its constructor and  *)
(* its run.                                                                *)
(*                                                                         *)
(* File names are sequences of one-character strings, so that the regular  *)
(* expression, str.endswith, the substring test and str.replace are        *)
(* computed on the characters as Python computes them.                     *)
(***************************************************************************)
EXTENDS Integers, Sequences, FiniteSets, TLC

VARIABLES
    sample_ids,     \* self.sample_ids: (sample id, project) pairs
    run_dir_files,  \* the files under <run_dir>/Data/Fastq
    found,          \* what the last call of _find_fastq_files returned
    out,            \* per project, <products_dir>/<project>/filtered_sequences
    quar,           \* per project, <products_dir>/<project>/zero_files
    last,           \* outcome of the last call of _filter
    calls,          \* number of calls of _filter so far
    writes,         \* number of files written to an output directory so far
    pc,             \* where the orchestrator is, in __init__ or in run
    cur,            \* index in project_data of the project being processed
    pool_size,      \* self.pool_size
    gen,            \* per project, the command list obtained in __init__
    scripts,        \* per project, the job-script file
    tables,         \* per project, the command-table file
    script_paths,   \* self.script_paths
    jobs,           \* per project, the state of its array job in the scheduler
    pending,        \* array indices of the running job whose task has not run
    executed,       \* per project, the (array index, command) pairs executed
    filtered,       \* the projects whose directories run has filtered
    failed,         \* per project, the array indices whose task exited non-zero
    config,         \* what the arguments of QCJob.__init__ point at
    tell,           \* the TellReadJob under construction or running
    rundir          \* the files under the run directory, for _clear_trim_files

resolveVars == <<sample_ids, run_dir_files, found>>

dirVars == <<out, quar>>

filterVars == <<last, calls, writes>>

ctorVars == <<pool_size, gen, scripts, tables, script_paths>>

runVars == <<pc, cur, jobs, pending, executed, filtered, failed>>

auxVars == <<config, tell, rundir>>

vars == <<resolveVars, dirVars, filterVars, ctorVars, runVars, auxVars>>

(***************************************************************************)
(* Bounds of the model.                                                    *)
(***************************************************************************)
MaxFiles == 2

MaxFilterCalls == 3

MaxWrites == 2

MaxCmds == 2

MaxPool == 3

(***************************************************************************)
(* Character-level helpers.                                                *)
(***************************************************************************)
Digit == {"0", "1", "2"}

Alphabet == Digit \cup {"s", "_", "R", "A", ".", "x", "f", "a", "t", "q", "g", "z"}

Range(s) == {s[i] : i \in 1..Len(s)}

SetMax(S) == CHOOSE m \in S : \A n \in S : n <= m

\* the orders in which os.walk or listdir may list the files of a set
Orderings(S) == {o \in [1..Cardinality(S) -> S] : Range(o) = S}

\* str.endswith(suffix)
EndsWith(s, suffix) ==
    /\ Len(s) >= Len(suffix)
    /\ SubSeq(s, Len(s) - Len(suffix) + 1, Len(s)) = suffix

\* the literal 'fastq.gz' of line 178
FASTQ_GZ == <<"f", "a", "s", "t", "q", ".", "g", "z">>

(***************************************************************************)
(* The regular expression of line 200 after its leading group: one        *)
(* character class per position, "_R", a digit, "_", three digits, any     *)
(* character, "fastq", any character, "gz".  The two dots of the source    *)
(* are unescaped, and an unescaped dot matches any character.              *)
(***************************************************************************)
RePattern ==
    << {"_"}, {"R"}, Digit, {"_"}, Digit, Digit, Digit, Alphabet,
       {"f"}, {"a"}, {"s"}, {"t"}, {"q"}, Alphabet, {"g"}, {"z"} >>

\* the pattern matches the characters of s that follow its first i ones
PatternAt(pattern, s, i) ==
    /\ i + Len(pattern) <= Len(s)
    /\ \A k \in 1..Len(pattern) : s[i + k] \in pattern[k]

NoMatch == <<"no match">>

\* re.match: anchored at the start only; the greedy group takes the longest
\* prefix after which the rest of the pattern matches.  The value is group(1).
ReMatchGroup(s) ==
    LET lens == {i \in 0..Len(s) : PatternAt(RePattern, s, i)}
    IN  IF lens = {} THEN NoMatch ELSE SubSeq(s, 1, SetMax(lens))

(***************************************************************************)
(* Inputs of the resolution: sample ids, file names and the tree under     *)
(* <run_dir>/Data/Fastq.                                                   *)
(***************************************************************************)
ResolveProjects == {"ProjectA", "ProjectB"}

SampleS1 == <<"s", "1">>

SampleS2 == <<"s", "2">>

SampleIds == {SampleS1, SampleS2}

Index001 == <<"0", "0", "1">>

\* <sid>_R<mate>_<index><sep>fastq.gz<rest>
FastqName(sid, mate, index, sep, rest) ==
    sid \o <<"_", "R", mate, "_">> \o index \o <<sep>> \o FASTQ_GZ \o rest

FileNames ==
    { FastqName(SampleS1, "1", Index001, ".", <<>>),
      FastqName(SampleS1, "2", Index001, ".", <<>>),
      FastqName(SampleS2, "1", Index001, ".", <<>>),
      FastqName(SampleS1, "1", Index001, "x", <<>>),
      FastqName(SampleS1, "1", Index001, ".", FASTQ_GZ),
      FastqName(SampleS1, "1", <<"0", "1">>, ".", <<>>),
      SampleS1 \o <<".">> \o FASTQ_GZ,
      SampleS1 \o <<"_", "R", "1", "_">> \o Index001 \o <<".", "f", "a", "s", "t", "q">> }

\* "." is the search path itself, "sub" a directory below it
Dirs == {".", "sub"}

\* one file of the tree: <run_dir>/Data/Fastq/<project>/<dir>/<name>
Entries == [project : ResolveProjects, dir : Dirs, name : FileNames]

RECURSIVE SubsetsUpTo(_, _)
\* the subsets of S of at most k elements
SubsetsUpTo(S, k) ==
    IF k = 0 THEN {{}}
    ELSE LET smaller == SubsetsUpTo(S, k - 1)
         IN  smaller \cup {t \cup {e} : t \in smaller, e \in S}

Trees == SubsetsUpTo(Entries, MaxFiles)

(***************************************************************************)
(* QCJob._find_fastq_files_in_run_dir; listing is what os.walk yields for  *)
(* the search path, one (root, file) per entry.  The path that is kept is  *)
(* join(search_path, some_file), whatever the root.                        *)
(***************************************************************************)
FindFastqFilesInRunDir(project_name, listing) ==
    LET kept == SelectSeq(listing, LAMBDA e : EndsWith(e.name, FASTQ_GZ))
    IN  [i \in 1..Len(kept) |->
            [project |-> project_name, dir |-> ".", name |-> kept[i].name]]

(***************************************************************************)
(* QCJob._find_fastq_files                                                 *)
(***************************************************************************)
FindFastqFiles(project_name, listing) ==
    LET ids == {c[1] : c \in {c \in sample_ids : c[2] = project_name}}
        files_found == FindFastqFilesInRunDir(project_name, listing)
    IN  SelectSeq(files_found,
                  LAMBDA f : /\ ReMatchGroup(f.name) # NoMatch
                             /\ ReMatchGroup(f.name) \in ids)

(***************************************************************************)
(* The projects of the sample sheet, in the order of self.project_data.    *)
(***************************************************************************)
NumProjects == 2

AllProjects == <<"ProjectA", "ProjectB", "ProjectC", "ProjectD">>

project_data == SubSeq(AllProjects, 1, NumProjects)

ProjectNames == Range(project_data)

(***************************************************************************)
(* Directories.  A directory is a function from the names of its files to  *)
(* their sizes; NoDir is a directory that does not exist.                  *)
(***************************************************************************)
MinimumBytes == 500

Sizes == {MinimumBytes, MinimumBytes + 1}

R1_TAG == <<"_", "R", "1", "_">>

R2_TAG == <<"_", "R", "2", "_">>

OutputNames ==
    { <<"a">> \o R1_TAG, <<"a">> \o R2_TAG,
      <<"b">> \o R1_TAG, <<"b">> \o R2_TAG,
      <<"l", "o", "g">> }

EmptyDir == <<>>

\* the quarantine directory: whether it exists, and its files
NoDir == [exists |-> FALSE, files |-> EmptyDir]

Existing(files) == [exists |-> TRUE, files |-> files]

DirContents == UNION {[names -> Sizes] : names \in SUBSET OutputNames}

\* the directory d without the file name
RemoveFile(d, name) == [n \in DOMAIN d \ {name} |-> d[n]]

\* the directory d with the file name of the given size
PutFile(d, name, size) ==
    [n \in DOMAIN d \cup {name} |-> IF n = name THEN size ELSE d[n]]

\* Python's  pat in s
Contains(s, pat) ==
    \E i \in 1..(Len(s) - Len(pat) + 1) : SubSeq(s, i, i + Len(pat) - 1) = pat

RECURSIVE Replace(_, _, _)
\* Python's  s.replace(old, new): every occurrence, left to right
Replace(s, old, new) ==
    IF Len(s) < Len(old) THEN s
    ELSE IF SubSeq(s, 1, Len(old)) = old
         THEN new \o Replace(SubSeq(s, Len(old) + 1, Len(s)), old, new)
         ELSE <<s[1]>> \o Replace(Tail(s), old, new)

(***************************************************************************)
(* QCJob._filter, lines 90-102: the scan.  listing is what listdir         *)
(* returned.  The result is the removal list, or a failure when stat does  *)
(* not find the reverse file (stat of the reverse file is only evaluated   *)
(* when the forward file is larger than minimum_bytes).                    *)
(***************************************************************************)
RECURSIVE FilterScanForwardOnly(_, _, _, _)
\* the scan with the size test of the reverse file left out
FilterScanForwardOnly(d, listing, minimum_bytes, empty_list) ==
    IF listing = <<>> THEN [failed |-> FALSE, empty_list |-> empty_list]
    ELSE LET entry == Head(listing)
             reverse_entry == Replace(entry, R1_TAG, R2_TAG)
         IN  IF Contains(entry, R1_TAG) /\ d[entry] <= minimum_bytes
             THEN FilterScanForwardOnly(d, Tail(listing), minimum_bytes,
                                        empty_list \o <<entry, reverse_entry>>)
             ELSE FilterScanForwardOnly(d, Tail(listing), minimum_bytes,
                                        empty_list)

RECURSIVE FilterScan(_, _, _, _)
FilterScan(d, listing, minimum_bytes, empty_list) ==
    IF listing = <<>> THEN [failed |-> FALSE, empty_list |-> empty_list]
    ELSE LET entry == Head(listing)
             reverse_entry == Replace(entry, R1_TAG, R2_TAG)
         IN  IF ~Contains(entry, R1_TAG)
             THEN FilterScan(d, Tail(listing), minimum_bytes, empty_list)
             ELSE IF d[entry] <= minimum_bytes
             THEN FilterScan(d, Tail(listing), minimum_bytes,
                             empty_list \o <<entry, reverse_entry>>)
             ELSE IF reverse_entry \notin DOMAIN d
             THEN [failed |-> TRUE, empty_list |-> empty_list]
             ELSE IF d[reverse_entry] <= minimum_bytes
             THEN FilterScan(d, Tail(listing), minimum_bytes,
                             empty_list \o <<entry, reverse_entry>>)
             ELSE FilterScan(d, Tail(listing), minimum_bytes, empty_list)

(***************************************************************************)
(* QCJob._filter, lines 108-110: the moves, in the order of the list.      *)
(* shutil.move raises when the source does not exist or when the           *)
(* destination directory already holds a file of that name; fault is the   *)
(* position of the move on which the file system refuses (0: none).        *)
(***************************************************************************)
RECURSIVE FilterMovesCopying(_, _, _, _, _)
\* the moves done as copies: the source file stays in the output directory
FilterMovesCopying(d, q, items, fault, moved) ==
    IF items = <<>>
    THEN [status |-> "ok", out |-> d, quar |-> Existing(q), moved |-> moved]
    ELSE LET item == Head(items)
         IN  IF \/ item \notin DOMAIN d
                \/ item \in DOMAIN q
                \/ fault = Len(moved) + 1
             THEN [status |-> "error", out |-> d, quar |-> Existing(q),
                   moved |-> moved]
             ELSE FilterMovesCopying(d, PutFile(q, item, d[item]),
                                     Tail(items), fault, Append(moved, item))

RECURSIVE FilterMovesLosing(_, _, _, _, _)
\* the moves, the second file of every two not reaching the quarantine
\* directory
FilterMovesLosing(d, q, items, fault, moved) ==
    IF items = <<>>
    THEN [status |-> "ok", out |-> d, quar |-> Existing(q), moved |-> moved]
    ELSE LET item == Head(items)
         IN  IF \/ item \notin DOMAIN d
                \/ item \in DOMAIN q
                \/ fault = Len(moved) + 1
             THEN [status |-> "error", out |-> d, quar |-> Existing(q),
                   moved |-> moved]
             ELSE FilterMovesLosing(RemoveFile(d, item),
                                    IF Len(moved) % 2 = 1 THEN q
                                    ELSE PutFile(q, item, d[item]),
                                    Tail(items), fault, Append(moved, item))

RECURSIVE FilterMoves(_, _, _, _, _)
FilterMoves(d, q, items, fault, moved) ==
    IF items = <<>>
    THEN [status |-> "ok", out |-> d, quar |-> Existing(q), moved |-> moved]
    ELSE LET item == Head(items)
         IN  IF \/ item \notin DOMAIN d
                \/ item \in DOMAIN q
                \/ fault = Len(moved) + 1
             THEN [status |-> "error", out |-> d, quar |-> Existing(q),
                   moved |-> moved]
             ELSE FilterMoves(RemoveFile(d, item), PutFile(q, item, d[item]),
                              Tail(items), fault, Append(moved, item))

(***************************************************************************)
(* QCJob._filter                                                           *)
(***************************************************************************)
\* _filter with the quarantine directory created before the scan
FilterMakedirsFirst(d, q, listing, minimum_bytes, fault) ==
    LET scan == FilterScan(d, listing, minimum_bytes, <<>>)
        empty_list == scan.empty_list
    IN  IF scan.failed
        THEN [status |-> "error", out |-> d, quar |-> Existing(q.files),
              moved |-> <<>>]
        ELSE FilterMoves(d, q.files, empty_list, fault, <<>>)

\* _filter moving the files found so far when the scan fails
FilterMovingWhileScanning(d, q, listing, minimum_bytes, fault) ==
    LET scan == FilterScan(d, listing, minimum_bytes, <<>>)
        empty_list == scan.empty_list
        r == FilterMoves(d, q.files, empty_list, fault, <<>>)
    IN  IF empty_list = <<>>
        THEN [status |-> IF scan.failed THEN "error" ELSE "ok",
              out |-> d, quar |-> q, moved |-> <<>>]
        ELSE IF scan.failed
        THEN [status |-> "error", out |-> r.out, quar |-> r.quar,
              moved |-> r.moved]
        ELSE r

Filter(d, q, listing, minimum_bytes, fault) ==
    LET scan == FilterScan(d, listing, minimum_bytes, <<>>)
        empty_list == scan.empty_list
    IN  IF scan.failed
        THEN [status |-> "error", out |-> d, quar |-> q, moved |-> <<>>]
        ELSE IF empty_list = <<>>
        THEN [status |-> "ok", out |-> d, quar |-> q, moved |-> <<>>]
        \* makedirs(empty_files_directory, exist_ok=True), then the moves
        ELSE FilterMoves(d, q.files, empty_list, fault, <<>>)

\* the positions at which the file system may refuse a move (0: nowhere)
Faults(d, listing, minimum_bytes) ==
    0..Len(FilterScan(d, listing, minimum_bytes, <<>>).empty_list)

\* what listdir may return for the directory d.  The scan skips the entries
\* without the mate-1 tag, so every order of the tagged entries is listed, each
\* followed by the other entries in one fixed order.
ListDir(d) ==
    LET tagged == {n \in DOMAIN d : Contains(n, R1_TAG)}
        others == CHOOSE o \in Orderings(DOMAIN d \ tagged) : TRUE
    IN  {o \o others : o \in Orderings(tagged)}


\* no call was interrupted
NotInterrupted == [status |-> "none"]

\* what is kept of a call of _filter on the directories of project p: its
\* result r, whether it followed a successful call, whether the file system
\* refused one of its moves and, when it did, the result u that the call
\* would have had otherwise
CallRecord(p, r, fault, u) ==
    LET faulted == r.status = "error" /\ fault = Len(r.moved) + 1
    IN  [status |-> r.status, project |-> p, moved |-> r.moved,
         after_ok |-> last.status = "ok",
         prev_moved |-> IF last.status = "ok" THEN last.moved ELSE <<>>,
         faulted |-> faulted,
         intended |-> IF faulted
                      THEN [status |-> u.status, out |-> u.out, quar |-> u.quar]
                      ELSE NotInterrupted]
(***************************************************************************)
(* Generation of the job script and of the command table.                  *)
(***************************************************************************)
DigitChars == <<"0", "1", "2", "3", "4", "5", "6", "7", "8", "9">>

RECURSIVE Dec(_)
\* '%d' % n, for n >= 0
Dec(n) ==
    IF n < 10 THEN <<DigitChars[n + 1]>>
    ELSE Dec(n \div 10) \o <<DigitChars[(n % 10) + 1]>>

DigitValue(c) == CHOOSE v \in 0..9 : DigitChars[v + 1] = c

RECURSIVE ParseDec(_)
\* the number a string of decimal digits denotes
ParseDec(s) ==
    IF Len(s) = 0 THEN 0
    ELSE 10 * ParseDec(SubSeq(s, 1, Len(s) - 1)) + DigitValue(s[Len(s)])

\* the position of the first character c of s
IndexOf(s, c) == CHOOSE i \in 1..Len(s) : s[i] = c /\ \A j \in 1..(i - 1) : s[j] # c

PBS_T == <<"#", "P", "B", "S", " ", "-", "t", " ">>

\* as ArrayDirective, with the throttle saturated at the number of commands
ArrayDirectiveSaturated(n, pool) ==
    PBS_T \o <<"1", "-">> \o Dec(n) \o <<"%">> \o Dec(IF pool < n THEN pool ELSE n)

\* line 255: "#PBS -t 1-%d%%%d" % (len(cmds), self.pool_size)
ArrayDirective(n, pool) ==
    PBS_T \o <<"1", "-">> \o Dec(n) \o <<"%">> \o Dec(pool)

\* the array request in "#PBS -t <lo>-<hi>%<cap>", as the scheduler reads it
ParseArrayDirective(line) ==
    LET request == SubSeq(line, Len(PBS_T) + 1, Len(line))
        dash == IndexOf(request, "-")
        percent == IndexOf(request, "%")
    IN  [lo |-> ParseDec(SubSeq(request, 1, dash - 1)),
         hi |-> ParseDec(SubSeq(request, dash + 1, percent - 1)),
         cap |-> ParseDec(SubSeq(request, percent + 1, Len(request)))]

\* the newline character
NL == "LF"

RECURSIVE Join(_, _)
\* sep.join(strings)
Join(strings, sep) ==
    IF strings = <<>> THEN <<>>
    ELSE IF Len(strings) = 1 THEN strings[1]
    ELSE strings[1] \o <<sep>> \o Join(Tail(strings), sep)

RECURSIVE SplitLines(_, _)
\* the lines of a text as head and tail count them: each ends at a newline,
\* the last one may end at the end of the text
SplitLines(text, line) ==
    IF text = <<>> THEN (IF line = <<>> THEN <<>> ELSE <<line>>)
    ELSE IF Head(text) = NL THEN <<line>> \o SplitLines(Tail(text), <<>>)
    ELSE SplitLines(Tail(text), Append(line, Head(text)))

\* as TaskStep, with a zero-based line number
TaskStepZeroBased(offset) == offset - 1

\* lines 264-265: offset=${PBS_ARRAYID}; step=$(( $offset - 0 ))
TaskStep(offset) == offset - 0

\* line 266: cmd0=$(head -n $step <table> | tail -n 1)
TaskCommand(text, array_id) ==
    LET step == TaskStep(array_id)
        lines == SplitLines(text, <<>>)
        head == SubSeq(lines, 1, IF step < Len(lines) THEN step ELSE Len(lines))
    IN  IF head = <<>> THEN <<>> ELSE head[Len(head)]

\* as ShDetailsFp, without the name of the project in the file name
ShDetailsFpShared(project_name) == project_data[1]

\* lines 224-225: the path of the command table of a project, the files being
\* identified by the project their name carries
ShDetailsFp(project_name) == project_name

\* lines 235-267: the lines of the job script that depend on the commands:
\* the array request, and the command table the task body reads
JobScript(project_name, cmds, pool) ==
    [exists |-> TRUE,
     directive |-> ArrayDirective(Len(cmds), pool),
     sh_details_fp |-> ShDetailsFp(project_name)]

\* as CommandTable, the text never reaching the file
CommandTableUnwritten(cmds) == [exists |-> TRUE, content |-> <<>>]

\* lines 272-273: the command table, written and closed
CommandTable(cmds) == [exists |-> TRUE, content |-> Join(cmds, NL)]

\* as WriteTable, the file opened for appending
WriteTableAppending(old, cmds) ==
    IF old.exists /\ old.content # <<>>
    THEN [exists |-> TRUE, content |-> old.content \o <<NL>> \o Join(cmds, NL)]
    ELSE CommandTable(cmds)

\* lines 272-273: open(sh_details_fp, 'w') truncates the file old, if there
\* is one, and the commands are written
WriteTable(old, cmds) == CommandTable(cmds)

\* what open(sh_details_fp, 'w') leaves when the write does not complete
TruncatedTable == [exists |-> TRUE, content |-> <<>>]

(***************************************************************************)
(* QCHelper.generate_commands: one command per unit of work, none for an   *)
(* empty set of FASTQ files.                                               *)
(***************************************************************************)
\* the command of the i-th unit of work of a project
Command(project_name, i) == <<"q", "c", project_name>> \o Dec(i)

GenerateCommands(project_name, fastq_file_paths) ==
    IF fastq_file_paths = <<>> THEN {<<>>}
    ELSE {[i \in 1..n |-> Command(project_name, i)] : n \in 1..MaxCmds}

(***************************************************************************)
(* The run loop of QCJob.run, lines 113-121.                               *)
(***************************************************************************)
\* the project whose directories are filtered in the iteration of project k
FilteredProjectNext(k) == project_data[IF k < NumProjects THEN k + 1 ELSE 1]

\* lines 114, 117-119: source_dir is that of the project just submitted
FilteredProject(k) == project_data[k]

\* the filter call placed after the loop instead of in its body
AfterQsubFilterLast(k) ==
    IF k < NumProjects THEN [pc |-> "qsub", cur |-> k + 1]
    ELSE [pc |-> "filter", cur |-> k]

\* the filter call skipped when a task of the job has exited non-zero
AfterQsubSkipPartial(k) ==
    IF failed[project_data[k]] # {}
    THEN (IF k < NumProjects THEN [pc |-> "qsub", cur |-> k + 1]
          ELSE [pc |-> "finished", cur |-> k])
    ELSE [pc |-> "filter", cur |-> k]

\* lines 115-120: when qsub has returned, the project's directory is filtered
AfterQsub(k) == [pc |-> "filter", cur |-> k]

\* lines 113, 120-121: after the filter, the next project, or the end of run
AfterFilter(k) ==
    IF k < NumProjects THEN [pc |-> "qsub", cur |-> k + 1]
    ELSE [pc |-> "finished", cur |-> k]

\* an exception of _filter swallowed, the loop going on
OnFilterErrorContinue(k) ==
    IF k < NumProjects THEN [pc |-> "qsub", cur |-> k + 1]
    ELSE [pc |-> "finished", cur |-> k]

\* lines 120-121: an exception of _filter is not caught and ends run
OnFilterError(k) == [pc |-> "aborted", cur |-> k]


(***************************************************************************)
(* The generation loop of QCJob.__init__, lines 76-86.                     *)
(***************************************************************************)
\* an exception of _generate_job_script swallowed, the object being built
OnGenerationErrorSwallowed(k) == "constructed"

\* lines 76-86: an exception raised while the files of project k are
\* generated is not caught and ends __init__
OnGenerationError(k) == "ctor_failed"
(***************************************************************************)
(* The values of the variables a specification does not exercise.          *)
(***************************************************************************)
NotCalled == [called |-> FALSE]

NeverCalled == [status |-> "none"]

DirsIdle ==
    /\ out = [p \in ProjectNames |-> EmptyDir]
    /\ quar = [p \in ProjectNames |-> NoDir]

FilterIdle ==
    /\ last = NeverCalled
    /\ calls = 0
    /\ writes = 0

ResolveIdle ==
    /\ sample_ids = {}
    /\ run_dir_files = {}
    /\ found = NotCalled

NoFile == [exists |-> FALSE]

\* no entry in self.script_paths
NoPath == ""

NotGenerated == [state |-> "none", cmds |-> <<>>]

\* nothing generated, nothing submitted: the state in which __init__ starts
FreshOrchestrator ==
    /\ gen = [p \in ProjectNames |-> NotGenerated]
    /\ scripts = [p \in ProjectNames |-> NoFile]
    /\ tables = [p \in ProjectNames |-> NoFile]
    /\ script_paths = [p \in ProjectNames |-> NoPath]
    /\ jobs = [p \in ProjectNames |-> "none"]
    /\ pending = {}
    /\ executed = [p \in ProjectNames |-> {}]
    /\ filtered = {}
    /\ failed = [p \in ProjectNames |-> {}]
    /\ cur = 1

OrchestratorIdle ==
    /\ FreshOrchestrator
    /\ pool_size = 1
    /\ pc = "idle"


\* no QCJob is being constructed
NoConfig == [checked |-> FALSE]

\* no TellReadJob exists
NoTellReadJob == [pc |-> "idle"]

\* no run directory is looked at
NoRunDir == [files |-> {}, cleared |-> FALSE]

TellReadIdle == tell = NoTellReadJob

ClearIdle == rundir = NoRunDir

AuxIdle ==
    /\ config = NoConfig
    /\ TellReadIdle
    /\ ClearIdle
InitResolve ==
    /\ sample_ids \in SUBSET (SampleIds \X ResolveProjects)
    /\ run_dir_files \in Trees
    /\ found = NotCalled
    /\ DirsIdle
    /\ FilterIdle
    /\ OrchestratorIdle
    /\ AuxIdle

\* a call of _find_fastq_files(project_name)
CallFindFastqFiles(project_name) ==
    /\ found = NotCalled
    /\ \E listing \in Orderings({e \in run_dir_files : e.project = project_name}) :
          found' = [called |-> TRUE, project |-> project_name,
                    files |-> FindFastqFiles(project_name, listing)]
    /\ UNCHANGED <<auxVars, sample_ids, run_dir_files, dirVars, filterVars, ctorVars, runVars>>

NextResolve == \E project_name \in ResolveProjects : CallFindFastqFiles(project_name)

SpecResolve == InitResolve /\ [][NextResolve]_vars

\* the project whose directories the filter is exercised on
FilterProject == project_data[1]

InitFilter ==
    /\ \E d \in DirContents :
          out = [p \in ProjectNames |-> IF p = FilterProject THEN d ELSE EmptyDir]
    /\ quar = [p \in ProjectNames |-> NoDir]
    /\ FilterIdle
    /\ ResolveIdle
    /\ OrchestratorIdle
    /\ AuxIdle

\* a call of _filter on the directories of a project
CallFilter(p) ==
    /\ calls < MaxFilterCalls
    /\ \E listing \in ListDir(out[p]) :
       \E fault \in Faults(out[p], listing, MinimumBytes) :
          LET r == Filter(out[p], quar[p], listing, MinimumBytes, fault)
          IN  /\ out' = [out EXCEPT ![p] = r.out]
              /\ quar' = [quar EXCEPT ![p] = r.quar]
              /\ last' = CallRecord(p, r, fault,
                                    Filter(out[p], quar[p], listing, MinimumBytes, 0))
    /\ calls' = calls + 1
    /\ UNCHANGED <<auxVars, resolveVars, writes, ctorVars, runVars>>

\* a job task writes (or overwrites) a file of the output directory
WriteOutput(p) ==
    /\ writes < MaxWrites
    /\ \E name \in OutputNames, size \in Sizes :
          out' = [out EXCEPT ![p] = PutFile(out[p], name, size)]
    /\ writes' = writes + 1
    /\ last' = NeverCalled
    /\ UNCHANGED <<auxVars, resolveVars, quar, calls, ctorVars, runVars>>

NextFilter ==
    \/ CallFilter(FilterProject)
    \/ WriteOutput(FilterProject)

SpecFilter == InitFilter /\ [][NextFilter]_vars

(***************************************************************************)
(* The life of one QCJob: __init__ generates the script and the command    *)
(* table of every project, then run submits and filters project by         *)
(* project.                                                                *)
(***************************************************************************)
\* the FASTQ file of sample s1
GoodFastq == FastqName(SampleS1, "1", Index001, ".", <<>>)

\* lines 42-46: whether the run directory and the sample-sheet file exist;
\* line 137: whether the sample sheet validates
Configs ==
    [checked : {TRUE}, run_dir_exists : BOOLEAN, sample_sheet_exists : BOOLEAN,
     sheet_valid : BOOLEAN]

\* lines 42-48 come before the loop of lines 76-86
CtorOrderGenerateFirst == <<"ctor", "config">>

CtorOrder == <<"config", "ctor">>

PhaseAfter(phase) == IF phase = CtorOrder[1] THEN CtorOrder[2] ELSE "constructed"

\* Job.__init__ raises when the run directory does not exist, and
\* Job._file_check when the file does not
JobChecks(c) ==
    IF ~c.run_dir_exists THEN "run_dir"
    ELSE IF ~c.sample_sheet_exists THEN "sample_sheet_path"
    ELSE "none"

\* lines 42-48 and 136-139: the first check that fails raises
ConfigError(c) ==
    IF JobChecks(c) # "none" THEN JobChecks(c)
    ELSE IF ~c.sheet_valid THEN "invalid_sheet"
    ELSE "none"

Init ==
    /\ sample_ids = {<<SampleS1, p>> : p \in ProjectNames}
    /\ run_dir_files \in
          SUBSET {[project |-> p, dir |-> ".", name |-> GoodFastq] : p \in ProjectNames}
    /\ found = NotCalled
    /\ DirsIdle
    /\ FilterIdle
    /\ FreshOrchestrator
    /\ pool_size \in 1..MaxPool
    /\ pc = CtorOrder[1]
    /\ config \in Configs
    /\ TellReadIdle
    /\ ClearIdle

\* lines 42-48: the run directory, the sample-sheet file and the sample sheet
\* are checked; a failed check raises, and so does __init__
CtorCheckConfig ==
    /\ pc = "config"
    /\ pc' = IF ConfigError(config) = "none" THEN PhaseAfter("config")
             ELSE "config_failed"
    /\ UNCHANGED <<auxVars, resolveVars, dirVars, filterVars, ctorVars, cur, jobs,
                   pending, executed, filtered, failed>>

\* lines 76-84 and 210-270: the FASTQ files are resolved, the commands are
\* obtained, and the job script is written
CtorWriteScript(k) ==
    /\ pc = "ctor"
    /\ cur = k
    /\ LET p == project_data[k]
       IN  \E listing \in Orderings({e \in run_dir_files : e.project = p}) :
              LET fastq_files == FindFastqFiles(p, listing)
              IN  /\ found' = [called |-> TRUE, project |-> p, files |-> fastq_files]
                  /\ \E cmds \in GenerateCommands(p, fastq_files) :
                        /\ gen' = [gen EXCEPT ![p] = [state |-> "script", cmds |-> cmds]]
                        /\ scripts' = [scripts EXCEPT ![p] = JobScript(p, cmds, pool_size)]
    /\ pc' = "write_table"
    /\ UNCHANGED <<auxVars, sample_ids, run_dir_files, dirVars, filterVars, pool_size,
                   tables, script_paths, cur, jobs, pending, executed, filtered, failed>>

\* line 233: the command-list provider raises, and so does __init__
CtorProviderFails(k) ==
    /\ pc = "ctor"
    /\ cur = k
    /\ gen' = [gen EXCEPT ![project_data[k]] = [state |-> "failed", cmds |-> <<>>]]
    /\ pc' = OnGenerationError(k)
    /\ UNCHANGED <<auxVars, resolveVars, dirVars, filterVars, pool_size, scripts, tables,
                   script_paths, cur, jobs, pending, executed, filtered, failed>>

\* lines 272-275 and 86: the command table is written, the script path is kept
CtorWriteTable(k) ==
    /\ pc = "write_table"
    /\ cur = k
    /\ LET p == project_data[k]
           fp == ShDetailsFp(p)
       IN  /\ tables' = [tables EXCEPT ![fp] = WriteTable(tables[fp], gen[p].cmds)]
           /\ gen' = [gen EXCEPT ![p] = [state |-> "done", cmds |-> gen[p].cmds,
                                         replaced |-> tables[fp]]]
           /\ script_paths' = [script_paths EXCEPT ![p] = p]
    /\ IF k < NumProjects
       THEN pc' = "ctor" /\ cur' = k + 1
       ELSE pc' = PhaseAfter("ctor") /\ cur' = 1
    /\ UNCHANGED <<auxVars, resolveVars, dirVars, filterVars, pool_size, scripts, jobs,
                   pending, executed, filtered, failed>>

\* lines 272-273: writing the command table fails, and so does __init__
CtorWriteTableFails(k) ==
    /\ pc = "write_table"
    /\ cur = k
    /\ LET p == project_data[k]
           fp == ShDetailsFp(p)
       IN  /\ \E t \in {tables[fp], TruncatedTable} :
                 tables' = [tables EXCEPT ![fp] = t]
           /\ gen' = [gen EXCEPT ![p].state = "failed"]
    /\ pc' = OnGenerationError(k)
    /\ UNCHANGED <<auxVars, resolveVars, dirVars, filterVars, pool_size, scripts,
                   script_paths, cur, jobs, pending, executed, filtered, failed>>

\* run is called on the constructed job
CallRun ==
    /\ pc = "constructed"
    /\ pc' = "qsub"
    /\ cur' = 1
    /\ UNCHANGED <<auxVars, resolveVars, dirVars, filterVars, ctorVars, jobs, pending,
                   executed, filtered, failed>>

\* line 115: the script of the project is submitted; the scheduler creates
\* one task per index of the array request of the script, and qsub waits
RunQsub(k) ==
    /\ pc = "qsub"
    /\ cur = k
    /\ LET p == project_data[k]
           request == ParseArrayDirective(scripts[script_paths[p]].directive)
       IN  /\ jobs' = [jobs EXCEPT ![p] = "running"]
           /\ pending' = request.lo..request.hi
    /\ pc' = "waiting"
    /\ UNCHANGED <<auxVars, resolveVars, dirVars, filterVars, ctorVars, cur, executed,
                   filtered, failed>>

\* what the task of array index i may leave in the output directory d.  The
\* first task writes the pair of sample a: nothing, the mate-1 file alone, or
\* both files, the mate-2 file at or above the threshold; the other tasks
\* write no FASTQ file.
TaskOutputs(d, i) ==
    LET forward == <<"a">> \o R1_TAG
        reverse == <<"a">> \o R2_TAG
    IN  IF i # 1 THEN {d}
        ELSE {d, PutFile(d, forward, MinimumBytes + 1)}
             \cup {PutFile(PutFile(d, forward, MinimumBytes + 1), reverse, size) :
                      size \in Sizes}

\* the task of array index i exits non-zero when it leaves the output
\* directory d without both files of the pair it is to write
TaskFailed(d, i) ==
    /\ i = 1
    /\ ~({<<"a">> \o R1_TAG, <<"a">> \o R2_TAG} \subseteq DOMAIN d)

\* lines 264-267: the task of array index i reads its line of the command
\* table named in the script, executes it, and leaves its output
TaskExec(k, i) ==
    /\ pc = "waiting"
    /\ cur = k
    /\ i \in pending
    /\ LET p == project_data[k]
           table == tables[scripts[script_paths[p]].sh_details_fp]
       IN  /\ executed' = [executed EXCEPT
                              ![p] = @ \cup {<<i, TaskCommand(table.content, i)>>}]
           /\ \E d \in TaskOutputs(out[p], i) :
                 /\ out' = [out EXCEPT ![p] = d]
                 /\ failed' = IF TaskFailed(d, i)
                               THEN [failed EXCEPT ![p] = @ \cup {i}]
                               ELSE failed
    /\ pending' = pending \ {i}
    /\ UNCHANGED <<auxVars, resolveVars, quar, filterVars, ctorVars, pc, cur, jobs, filtered>>

\* the scheduler reports the job as completed: qsub returns (line 116)
JobSucceeds(k) ==
    /\ pc = "waiting"
    /\ cur = k
    /\ pending = {}
    /\ jobs' = [jobs EXCEPT ![project_data[k]] = "succeeded"]
    /\ pc' = AfterQsub(k).pc
    /\ cur' = AfterQsub(k).cur
    /\ UNCHANGED <<auxVars, resolveVars, dirVars, filterVars, ctorVars, pending, executed,
                   filtered, failed>>

\* the scheduler reports the job as failed: qsub raises, and so does run
JobFails(k) ==
    /\ pc = "waiting"
    /\ cur = k
    /\ jobs' = [jobs EXCEPT ![project_data[k]] = "failed"]
    /\ pending' = {}
    /\ pc' = "aborted"
    /\ UNCHANGED <<auxVars, resolveVars, dirVars, filterVars, ctorVars, cur, executed,
                   filtered, failed>>

\* lines 117-121: the directory of the project is filtered
RunFilter(k) ==
    /\ pc = "filter"
    /\ cur = k
    /\ LET p == FilteredProject(k)
       IN  \E listing \in ListDir(out[p]) :
           \E fault \in Faults(out[p], listing, MinimumBytes) :
              LET r == Filter(out[p], quar[p], listing, MinimumBytes, fault)
                  next == IF r.status = "ok" THEN AfterFilter(k)
                          ELSE OnFilterError(k)
              IN  /\ out' = [out EXCEPT ![p] = r.out]
                  /\ quar' = [quar EXCEPT ![p] = r.quar]
                  /\ last' = CallRecord(p, r, fault,
                                        Filter(out[p], quar[p], listing,
                                               MinimumBytes, 0))
                  /\ filtered' = IF r.status = "ok" THEN filtered \cup {p}
                                 ELSE filtered
                  /\ pc' = next.pc
                  /\ cur' = next.cur
    /\ calls' = calls + 1
    /\ UNCHANGED <<auxVars, resolveVars, writes, ctorVars, jobs, pending, executed, failed>>

Next ==
    \/ \E k \in 1..NumProjects :
          \/ CtorWriteScript(k)
          \/ CtorProviderFails(k)
          \/ CtorWriteTable(k)
          \/ CtorWriteTableFails(k)
          \/ RunQsub(k)
          \/ JobSucceeds(k)
          \/ JobFails(k)
          \/ RunFilter(k)
          \/ \E i \in 1..MaxCmds : TaskExec(k, i)
    \/ CallRun
    \/ CtorCheckConfig

Spec == Init /\ [][Next]_vars

(***************************************************************************)
(* TellReadJob: the constructor checks its arguments, run renders the job  *)
(* script, submits it and waits.                                           *)
(***************************************************************************)
\* line 66: the lane numbers the constructor accepts
FirstLane == 1

LastLane == 8

\* the lane argument: what int(lane) makes of it, when it makes something
Lanes ==
    {[is_int |-> TRUE, value |-> v] : v \in (FirstLane - 1)..(LastLane + 1)}
        \cup {[is_int |-> FALSE, value |-> 0]}

\* what the arguments of TellReadJob.__init__ point at
TellConfigs ==
    [run_dir_exists : BOOLEAN, sample_sheet_exists : BOOLEAN,
     sheet_valid : BOOLEAN, assay_recognized : BOOLEAN, jmem_is_int : BOOLEAN,
     lane : Lanes]

\* lines 121-123: the (Sample_ID, Sample_Project) pairs of the sample sheet
TellSampleIds ==
    {[i \in 1..n |-> <<<<"C">> \o Dec(i), "ProjectA">>] : n \in 0..MaxFiles}

\* the constructor without the test of line 66
TellReadInitLaneUnchecked(c) ==
    IF JobChecks(c) # "none"
    THEN [status |-> "error", type |-> "PipelineError", reason |-> JobChecks(c)]
    ELSE IF ~c.sheet_valid
    THEN [status |-> "error", type |-> "PipelineError", reason |-> "invalid_sheet"]
    ELSE IF ~c.assay_recognized
    THEN [status |-> "error", type |-> "PipelineError", reason |-> "assay"]
    ELSE IF ~c.jmem_is_int
    THEN [status |-> "error", type |-> "ValueError", reason |-> "jmem"]
    ELSE IF ~c.lane.is_int
    THEN [status |-> "error", type |-> "ValueError", reason |-> "lane"]
    ELSE [status |-> "ok", lane_number |-> c.lane.value]

\* lines 38-68, in the order of the code: the first check that fails raises
TellReadInit(c) ==
    IF JobChecks(c) # "none"
    THEN [status |-> "error", type |-> "PipelineError", reason |-> JobChecks(c)]
    ELSE IF ~c.sheet_valid
    THEN [status |-> "error", type |-> "PipelineError", reason |-> "invalid_sheet"]
    ELSE IF ~c.assay_recognized
    THEN [status |-> "error", type |-> "PipelineError", reason |-> "assay"]
    ELSE IF ~c.jmem_is_int
    THEN [status |-> "error", type |-> "ValueError", reason |-> "jmem"]
    ELSE IF ~c.lane.is_int
    THEN [status |-> "error", type |-> "ValueError", reason |-> "lane"]
    ELSE IF c.lane.value < FirstLane \/ c.lane.value > LastLane
    THEN [status |-> "error", type |-> "ValueError", reason |-> "lane"]
    ELSE [status |-> "ok", lane_number |-> c.lane.value]

NONE == <<"N", "O", "N", "E">>

\* lines 149-179: the fields of the rendered script that depend on the job
TellJobScript(lane_number, ids) ==
    [exists |-> TRUE,
     lane |-> <<"s", "_">> \o Dec(lane_number),
     samples |-> Join([i \in 1..Len(ids) |-> ids[i][1]], ","),
     refs |-> Join([i \in 1..Len(ids) |-> NONE], ",")]

\* the messages of the JobFailedError that submit_job raises: they name the
\* job
FailureMessages == {<<"7">>, <<"j", "o", "b", " ", "7">>}

\* lines 102-103: info = str(e), and the message '\n'.join(info); join
\* iterates over the characters of a string
RunFailureMessage(m) == Join([i \in 1..Len(m) |-> <<m[i]>>], NL)

\* a TellReadJob about to be constructed
TellReadNew ==
    tell \in {[pc |-> "init", cfg |-> c, sample_ids |-> ids, lane_number |-> 0,
               script |-> NoFile, job |-> "none", raised |-> "none"] :
                 c \in TellConfigs, ids \in TellSampleIds}

\* lines 38-77
TellConstruct ==
    /\ tell.pc = "init"
    /\ LET r == TellReadInit(tell.cfg)
       IN  tell' = IF r.status = "ok"
                   THEN [tell EXCEPT !.pc = "constructed",
                                     !.lane_number = r.lane_number]
                   ELSE [tell EXCEPT !.pc = "init_failed", !.raised = r]
    /\ UNCHANGED <<resolveVars, dirVars, filterVars, ctorVars, runVars, config, rundir>>

\* line 80
TellGenerateJobScript ==
    /\ tell.pc = "constructed"
    /\ tell' = [tell EXCEPT !.pc = "generated",
                            !.script = TellJobScript(tell.lane_number, tell.sample_ids)]
    /\ UNCHANGED <<resolveVars, dirVars, filterVars, ctorVars, runVars, config, rundir>>

\* lines 88-91: the script is submitted, and submit_job waits
TellSubmitJob ==
    /\ tell.pc = "generated"
    /\ tell' = [tell EXCEPT !.pc = "submitted", !.job = "running"]
    /\ UNCHANGED <<resolveVars, dirVars, filterVars, ctorVars, runVars, config, rundir>>

\* lines 93, 105: submit_job returns
TellJobCompletes ==
    /\ tell.pc = "submitted"
    /\ tell' = [tell EXCEPT !.pc = "done", !.job = "completed"]
    /\ UNCHANGED <<resolveVars, dirVars, filterVars, ctorVars, runVars, config, rundir>>

\* lines 94-103: submit_job raises JobFailedError(m)
TellJobFails ==
    /\ tell.pc = "submitted"
    /\ \E m \in FailureMessages :
          tell' = [tell EXCEPT !.pc = "run_failed", !.job = "failed",
                               !.raised = [status |-> "error",
                                           type |-> "JobFailedError",
                                           submit_job_message |-> m,
                                           message |-> RunFailureMessage(m)]]
    /\ UNCHANGED <<resolveVars, dirVars, filterVars, ctorVars, runVars, config, rundir>>

NextTellRead ==
    \/ TellConstruct
    \/ TellGenerateJobScript
    \/ TellSubmitJob
    \/ TellJobCompletes
    \/ TellJobFails

InitTellRead ==
    /\ TellReadNew
    /\ DirsIdle
    /\ FilterIdle
    /\ ResolveIdle
    /\ OrchestratorIdle
    /\ config = NoConfig
    /\ ClearIdle

SpecTellRead == InitTellRead /\ [][NextTellRead]_vars

(***************************************************************************)
(* The construction of either job.                                         *)
(***************************************************************************)
InitJobs == Init \/ InitTellRead

NextJobs == Next \/ NextTellRead

SpecJobs == InitJobs /\ [][NextJobs]_vars

(***************************************************************************)
(* The constructor of QCJob in a run directory that still holds the        *)
(* command tables of an earlier run.                                       *)
(***************************************************************************)
\* the i-th command of the earlier run of a project
OldCommand(project_name, i) == <<"o", "l", "d", project_name>> \o Dec(i)

\* the command table an earlier run may have left for a project: none, or
\* one of up to MaxCmds + 1 lines
StaleTables(project_name) ==
    {NoFile} \cup {CommandTable([i \in 1..n |-> OldCommand(project_name, i)]) :
                      n \in 1..(MaxCmds + 1)}

InitRegen ==
    /\ sample_ids = {<<SampleS1, p>> : p \in ProjectNames}
    /\ run_dir_files \in
          SUBSET {[project |-> p, dir |-> ".", name |-> GoodFastq] : p \in ProjectNames}
    /\ found = NotCalled
    /\ DirsIdle
    /\ FilterIdle
    /\ gen = [p \in ProjectNames |-> NotGenerated]
    /\ scripts = [p \in ProjectNames |-> NoFile]
    /\ tables \in [ProjectNames -> UNION {StaleTables(p) : p \in ProjectNames}]
    /\ \A p \in ProjectNames : tables[p] \in StaleTables(p)
    /\ script_paths = [p \in ProjectNames |-> NoPath]
    /\ jobs = [p \in ProjectNames |-> "none"]
    /\ pending = {}
    /\ executed = [p \in ProjectNames |-> {}]
    /\ filtered = {}
    /\ failed = [p \in ProjectNames |-> {}]
    /\ cur = 1
    /\ pool_size \in 1..MaxPool
    /\ pc = CtorOrder[1]
    /\ config \in {c \in Configs : ConfigError(c) = "none"}
    /\ TellReadIdle
    /\ ClearIdle

NextRegen ==
    \/ CtorCheckConfig
    \/ \E k \in 1..NumProjects :
          \/ CtorWriteScript(k)
          \/ CtorProviderFails(k)
          \/ CtorWriteTable(k)
          \/ CtorWriteTableFails(k)

SpecRegen == InitRegen /\ [][NextRegen]_vars

(***************************************************************************)
(* QCJob._clear_trim_files, lines 123-131.                                 *)
(***************************************************************************)
\* line 68: self.split_file_prefix
SPLIT_FILE_PREFIX == <<"s", "p", "l", "i", "t", "_", "f", "i", "l", "e", "_">>

\* the names of the files of the run directory: two command tables, a name
\* that holds the prefix after its first character, the prefix without its
\* last character, and two names without it
RunDirNames ==
    { SPLIT_FILE_PREFIX \o <<"A">>,
      SPLIT_FILE_PREFIX \o <<"B">>,
      <<"x">> \o SPLIT_FILE_PREFIX \o <<"A">>,
      SubSeq(SPLIT_FILE_PREFIX, 1, Len(SPLIT_FILE_PREFIX) - 1),
      <<"l", "o", "g">>,
      <<"A">> }

\* line 127: walk visits the run directory and its subdirectories
RunDirEntries == {[dir |-> d, name |-> n] : d \in Dirs, n \in RunDirNames}

\* lines 127-131: the files that are left
ClearTrimFiles(files) ==
    {f \in files : ~Contains(f.name, SPLIT_FILE_PREFIX)}

InitClear ==
    /\ rundir \in {[files |-> t, cleared |-> FALSE] :
                      t \in SubsetsUpTo(RunDirEntries, MaxFiles)}
    /\ DirsIdle
    /\ FilterIdle
    /\ ResolveIdle
    /\ OrchestratorIdle
    /\ config = NoConfig
    /\ TellReadIdle

\* a call of _clear_trim_files
CallClearTrimFiles ==
    /\ ~rundir.cleared
    /\ rundir' = [files |-> ClearTrimFiles(rundir.files), cleared |-> TRUE,
                  before |-> rundir.files]
    /\ UNCHANGED <<resolveVars, dirVars, filterVars, ctorVars, runVars, config, tell>>

NextClear == CallClearTrimFiles

SpecClear == InitClear /\ [][NextClear]_vars

(***************************************************************************)
(* The file-name grammar <sample_id>_R<digit>_<3 digits>.fastq.gz: the     *)
(* whole name, with literal dots.                                          *)
(***************************************************************************)
SuffixGrammar ==
    << {"_"}, {"R"}, Digit, {"_"}, Digit, Digit, Digit, {"."},
       {"f"}, {"a"}, {"s"}, {"t"}, {"q"}, {"."}, {"g"}, {"z"} >>

HasSamplePrefix(name, ids) ==
    /\ Len(name) >= Len(SuffixGrammar)
    /\ PatternAt(SuffixGrammar, name, Len(name) - Len(SuffixGrammar))
    /\ SubSeq(name, 1, Len(name) - Len(SuffixGrammar)) \in ids

\* C1: _find_fastq_files returns exactly the files found under the project's
\* input location whose name is <sample id>_R<digit>_<3 digits>.fastq.gz for a
\* sample id of the project, and no other file.
C1_ResolveExact ==
    found.called =>
        Range(found.files) =
            {e \in run_dir_files :
                /\ e.project = found.project
                /\ HasSamplePrefix(e.name,
                       {c[1] : c \in {c \in sample_ids : c[2] = found.project}})}

(***************************************************************************)
(* Properties of the quarantine filter.                                    *)
(***************************************************************************)
\* this step is a call of _filter
FilterStep == calls' = calls + 1

Mate2(name) == Replace(name, R1_TAG, R2_TAG)

Declared(p) == ParseArrayDirective(scripts[p].directive)

Min(a, b) == IF a < b THEN a ELSE b

\* C2, as amended: for a command list of length N >= 1 and a pool size P, the
\* script declares the array range 1..N and the throttle P itself, whether or
\* not P exceeds N.
C2_DeclaresRangeAndPoolSize ==
    \A p \in ProjectNames :
        (scripts[p].exists /\ Len(gen[p].cmds) >= 1) =>
            /\ Declared(p).lo = 1
            /\ Declared(p).hi = Len(gen[p].cmds)
            /\ Declared(p).cap = pool_size

\* C2, as stated: the declared throttle is min(P, N), never more than N.
C2_CapSaturates ==
    \A p \in ProjectNames :
        (scripts[p].exists /\ Len(gen[p].cmds) >= 1) =>
            /\ Declared(p).lo = 1
            /\ Declared(p).hi = Len(gen[p].cmds)
            /\ Declared(p).cap = Min(pool_size, Len(gen[p].cmds))

\* a script was written for a command list shorter than the pool size
C2_Witness ==
    \E p \in ProjectNames :
        /\ scripts[p].exists
        /\ Len(gen[p].cmds) >= 1
        /\ pool_size > Len(gen[p].cmds)

\* C3: when the command list of a project is empty, generation fails, and
\* neither a job script nor a command table is written for the project.
C3_EmptyListFails ==
    \A p \in ProjectNames :
        (gen[p].state \in {"script", "done"} /\ gen[p].cmds = <<>>) =>
            /\ pc = "ctor_failed"
            /\ ~scripts[p].exists
            /\ ~tables[p].exists

\* C6: the task of array index i executes the i-th command of the project and
\* no other, and when the job has completed each of the N commands has been
\* executed by exactly one task.
C6_TaskRunsItsCommand ==
    \A p \in ProjectNames :
        LET cmds == gen[p].cmds
        IN  /\ \A e \in executed[p] :
                  e[1] \in 1..Len(cmds) /\ e[2] = cmds[e[1]]
            /\ jobs[p] = "succeeded" =>
                  /\ Cardinality(executed[p]) = Len(cmds)
                  /\ \A i \in 1..Len(cmds) : <<i, cmds[i]>> \in executed[p]

\* a job of at least two tasks has completed
C6_Witness ==
    \E p \in ProjectNames :
        /\ jobs[p] = "succeeded"
        /\ Len(gen[p].cmds) >= 2
        /\ gen[p].cmds[1] # gen[p].cmds[2]
        /\ Cardinality(executed[p]) = Len(gen[p].cmds)

\* the command table of project p is on disk and its lines are the commands
TableComplete(p) ==
    /\ tables[p].exists
    /\ SplitLines(tables[p].content, <<>>) = gen[p].cmds

\* C7: no job script exists on disk while its command table is missing or
\* incomplete.
C7_TableBeforeScript ==
    \A p \in ProjectNames : scripts[p].exists => TableComplete(p)

\* C7, as amended: the job script is written first and the command table
\* after it, and both are completely written before the path of the script is
\* kept in script_paths and before the script is submitted: no job is
\* submitted while its command table is missing or incomplete.
C7_TableBeforeSubmit ==
    \A p \in ProjectNames :
        (script_paths[p] # NoPath \/ jobs[p] # "none") =>
            /\ scripts[p].exists
            /\ TableComplete(p)

\* a job is running on a script whose command table holds two commands
C7_Witness ==
    \E p \in ProjectNames :
        /\ jobs[p] = "running"
        /\ Len(gen[p].cmds) >= 2
        /\ tables[p].exists
        /\ pending # {}

(***************************************************************************)
(* Properties of the run loop.                                             *)
(***************************************************************************)
Terminal == {"succeeded", "failed"}

\* C8: the filtering of the directories of a project never starts before the
\* array job of that project is in a terminal state.
C8_FilterAfterTerminal ==
    [][ FilterStep => jobs[last'.project] \in Terminal ]_vars

\* run has filtered the directory of a project whose job had completed, and
\* moved files
C8_Witness ==
    /\ pc # "idle"
    /\ last.status = "ok"
    /\ last.moved # <<>>
    /\ jobs[last.project] = "succeeded"

\* C9: at most one array job is submitted and not yet terminal, and the job
\* of a project is submitted only when the job of the project before it in
\* project_data is terminal and the filtering of that project has finished.
C9_Sequential ==
    [][ /\ Cardinality({p \in ProjectNames : jobs'[p] = "running"}) <= 1
        /\ \A k \in 1..(NumProjects - 1) :
              (jobs[project_data[k + 1]] = "none"
                 /\ jobs'[project_data[k + 1]] # "none")
              => /\ jobs[project_data[k]] \in Terminal
                 /\ project_data[k] \in filtered ]_vars

\* the job of the second project runs, the first project being done
C9_Witness ==
    /\ jobs[project_data[2]] = "running"
    /\ jobs[project_data[1]] = "succeeded"
    /\ project_data[1] \in filtered

\* a fatal error has occurred while project k was processed
ErrorAt(k) ==
    \/ jobs[project_data[k]] = "failed"
    \/ pc # "idle" /\ last.status = "error" /\ last.project = project_data[k]

\* nothing was submitted or filtered for the projects after project k
LaterUntouched(k) ==
    \A j \in (k + 1)..NumProjects :
        /\ jobs[project_data[j]] = "none"
        /\ project_data[j] \notin filtered
        /\ out[project_data[j]] = EmptyDir
        /\ quar[project_data[j]] = NoDir

\* C10: once a fatal error has occurred while project k was processed, no job
\* is submitted and nothing is filtered for a later project, and the
\* directories of the projects already completed stay as their own processing
\* left them.
C10_AbortKeepsCompleted ==
    [][ /\ \A k \in 1..NumProjects : ErrorAt(k)' => LaterUntouched(k)'
        /\ \A p \in filtered : out'[p] = out[p] /\ quar'[p] = quar[p] ]_vars

\* the filter failed on the second project after the first project had been
\* completed with files in quarantine, a later project being untouched
C10_Witness ==
    /\ pc = "aborted"
    /\ last.status = "error"
    /\ last.project = project_data[2]
    /\ project_data[1] \in filtered
    /\ quar[project_data[1]].files # EmptyDir

(***************************************************************************)
(* C14. A call of _filter interrupted by the file system after some of its *)
(* moves can be repeated: the repeated call raises no error and leaves the *)
(* directories as the uninterrupted call would have, no member of a        *)
(* quarantined pair remaining in the output directory.                     *)
(***************************************************************************)
C14_RerunCompletes ==
    [][ ( /\ FilterStep
          /\ last.status = "error"
          /\ last.faulted
          /\ last.intended.status = "ok"
          /\ ~last'.faulted )
        => LET p == last.project
           IN  /\ last'.status = "ok"
               /\ out'[p] = last.intended.out
               /\ quar'[p] = last.intended.quar ]_vars

\* a pair of the directory d qualifies for the quarantine: a mate-1 file is
\* undersized, or its mate-2 file is
Qualifies(d) ==
    \E n \in DOMAIN d :
       /\ Contains(n, R1_TAG)
       /\ \/ d[n] <= MinimumBytes
          \/ Mate2(n) \in DOMAIN d /\ d[Mate2(n)] <= MinimumBytes

\* the call of this step has created the quarantine directory of project p
Created(p) == ~quar[p].exists /\ quar'[p].exists

\* the call of this step has moved both files of a pair into the quarantine
\* directory of project p
PairMoved(p) ==
    \E n \in DOMAIN out[p] :
       /\ Contains(n, R1_TAG)
       /\ {n, Mate2(n)} \subseteq Range(last'.moved)
       /\ {n, Mate2(n)} \subseteq DOMAIN quar'[p].files

\* a call of _filter on directories in which no pair qualifies leaves the
\* quarantine directory as it was, not creating it
NotCreatedUnlessQualifies ==
    \A p \in ProjectNames :
       (FilterStep /\ last'.project = p /\ ~Qualifies(out[p])) => quar'[p] = quar[p]

(***************************************************************************)
(* C15, as stated.  _filter creates the quarantine directory only when a   *)
(* pair qualifies, and whenever a call creates it, at least one pair is    *)
(* moved into it.                                                          *)
(***************************************************************************)
C15_CreatedMeansPairMoved ==
    [][ /\ NotCreatedUnlessQualifies
        /\ \A p \in ProjectNames :
              (FilterStep /\ last'.project = p /\ Created(p)) => PairMoved(p) ]_vars

(***************************************************************************)
(* C15, amended.  _filter creates the quarantine directory only when a     *)
(* pair qualifies, and whenever a call that completes without error has    *)
(* created it, at least one pair has been moved into it.                   *)
(***************************************************************************)
C15_LazyQuarantine ==
    [][ /\ NotCreatedUnlessQualifies
        /\ \A p \in ProjectNames :
              (FilterStep /\ last'.project = p /\ Created(p)) =>
                 /\ Qualifies(out[p])
                 /\ last'.status = "ok" => PairMoved(p) ]_vars

\* a call has completed on directories holding a pair of two large files
\* and no qualifying pair, and there is no quarantine directory
C15_Witness ==
    \E p \in ProjectNames :
       /\ last.status = "ok"
       /\ last.project = p
       /\ last.moved = <<>>
       /\ {<<"a">> \o R1_TAG, <<"a">> \o R2_TAG} \subseteq DOMAIN out[p]
       /\ ~Qualifies(out[p])
       /\ ~quar[p].exists

\* the scan of the directory d raises: a mate-1 file is larger than the
\* threshold and its mate-2 file does not exist
ScanFails(d) ==
    \E n \in DOMAIN d :
       /\ Contains(n, R1_TAG)
       /\ d[n] > MinimumBytes
       /\ Mate2(n) \notin DOMAIN d

(***************************************************************************)
(* C19. _filter scans the whole directory before it moves anything: when   *)
(* the scan raises, the call raises with the output directory unchanged,   *)
(* no file moved and the quarantine directory not created.                 *)
(***************************************************************************)
C19_ScanBeforeMoves ==
    [][ \A p \in ProjectNames :
           (FilterStep /\ last'.project = p /\ ScanFails(out[p])) =>
              /\ last'.status = "error"
              /\ last'.moved = <<>>
              /\ out'[p] = out[p]
              /\ quar'[p] = quar[p] ]_vars

\* a call has raised in its scan on a directory that holds a qualifying pair
\* as well, and there is no quarantine directory
C19_Witness ==
    \E p \in ProjectNames :
       /\ last.status = "error"
       /\ last.project = p
       /\ ScanFails(out[p])
       /\ {<<"b">> \o R1_TAG, <<"b">> \o R2_TAG} \subseteq DOMAIN out[p]
       /\ out[p][<<"b">> \o R1_TAG] <= MinimumBytes
       /\ ~quar[p].exists

\* the files of directory d that are neither a mate-1 file nor the computed
\* mate-2 file of one
Unpaired(d) ==
    {n \in DOMAIN d :
        /\ ~Contains(n, R1_TAG)
        /\ \A m \in DOMAIN d : Contains(m, R1_TAG) => Mate2(m) # n}

C11_NoArtifactOnConfigError ==
    /\ pc = "config_failed" =>
          \A p \in ProjectNames :
             /\ ~scripts[p].exists
             /\ ~tables[p].exists
             /\ script_paths[p] = NoPath
             /\ jobs[p] = "none"
    /\ tell.pc = "init_failed" => (~tell.script.exists /\ tell.job = "none")

\* the constructor of QCJob has failed on an invalid sample sheet
C11_Witness == pc = "config_failed" /\ ConfigError(config) = "invalid_sheet"

(***************************************************************************)
(* C12. When submit_job raises JobFailedError with message m, run raises a *)
(* JobFailedError whose message is m, unchanged.                           *)
(***************************************************************************)
C12_MessageUnchanged ==
    tell.pc = "run_failed" => tell.raised.message = tell.raised.submit_job_message


RECURSIVE SplitOn(_, _, _)
\* Python's  text.split(sep), field being the entry read so far
SplitOn(text, sep, field) ==
    IF text = <<>> THEN <<field>>
    ELSE IF Head(text) = sep THEN <<field>> \o SplitOn(Tail(text), sep, <<>>)
    ELSE SplitOn(Tail(text), sep, Append(field, Head(text)))

\* the entries of a comma-separated list that spell NONE
NoneEntries(text) ==
    LET entries == SplitOn(text, ",", <<>>)
    IN  {i \in 1..Len(entries) : entries[i] = <<"N", "O", "N", "E">>}

\* the arguments checked before the lane are all good
ChecksBeforeLanePass(c) ==
    /\ c.run_dir_exists
    /\ c.sample_sheet_exists
    /\ c.sheet_valid
    /\ c.assay_recognized
    /\ c.jmem_is_int

(***************************************************************************)
(* C22. A constructed TellReadJob has an integer lane_number from 1 to 8,  *)
(* the value of its lane argument; a lane below 1 or above 8 makes the     *)
(* constructor fail, with a ValueError when it reaches the lane check; and *)
(* the job script that run renders carries the lane 's_<lane_number>' and  *)
(* one 'NONE' reference entry per sample id, and no other entry.           *)
(***************************************************************************)
C22_LaneValidated ==
    /\ tell.pc \in {"constructed", "generated", "submitted", "done", "run_failed"} =>
          /\ tell.cfg.lane.is_int
          /\ tell.lane_number = tell.cfg.lane.value
          /\ tell.lane_number \in 1..8
    /\ (tell.pc # "init" /\ tell.cfg.lane.is_int /\ tell.cfg.lane.value \notin 1..8) =>
          /\ tell.pc = "init_failed"
          /\ ChecksBeforeLanePass(tell.cfg) => tell.raised.type = "ValueError"
    /\ tell.script.exists =>
          /\ SubSeq(tell.script.lane, 1, 2) = <<"s", "_">>
          /\ Len(tell.script.lane) = 3
          /\ ParseDec(SubSeq(tell.script.lane, 3, 3)) = tell.lane_number
          /\ tell.lane_number \in 1..8
          /\ Cardinality(NoneEntries(tell.script.refs)) = Len(tell.sample_ids)
          /\ tell.sample_ids # <<>> =>
                Len(SplitOn(tell.script.refs, ",", <<>>)) = Len(tell.sample_ids)
          /\ tell.sample_ids = <<>> => tell.script.refs = <<>>

\* the script of a job of lane 8 with two sample ids has been rendered
C22_Witness ==
    /\ tell.pc = "generated"
    /\ tell.script.exists
    /\ tell.lane_number = 8
    /\ Len(tell.sample_ids) = 2
(***************************************************************************)
(* C13. After the script generation of a project whose command table of an *)
(* earlier run was still there, the table holds exactly the new commands:  *)
(* its lines are the new command list, and the line the task of index i    *)
(* reads is the new i-th command, whatever the old and new lengths.        *)
(***************************************************************************)
C13_TableIsNewList ==
    \A p \in ProjectNames :
       gen[p].state = "done" =>
          LET table == tables[ShDetailsFp(p)]
          IN  /\ table.exists
              /\ SplitLines(table.content, <<>>) = gen[p].cmds
              /\ \A i \in 1..Len(gen[p].cmds) :
                    TaskCommand(table.content, i) = gen[p].cmds[i]

\* a table of an earlier run, longer than the new command list, was replaced
C13_Witness ==
    \E p \in ProjectNames :
       /\ gen[p].state = "done"
       /\ gen[p].cmds # <<>>
       /\ gen[p].replaced.exists
       /\ Len(SplitLines(gen[p].replaced.content, <<>>)) > Len(gen[p].cmds)

\* the array job of project p has partial results: a task has exited
\* non-zero, another has not
Partial(p) ==
    /\ failed[p] # {}
    /\ \E e \in executed[p] : e[1] \notin failed[p]

(***************************************************************************)
(* C16. When qsub returns for a project whose array job has partial        *)
(* results, run goes on to filter the directories of that project: the     *)
(* next step of run is the call of _filter on them, and when it completes, *)
(* every undersized pair of the output that existed is in quarantine.      *)
(***************************************************************************)
C16_PartialStillFiltered ==
    [][ \A k \in 1..NumProjects :
           LET p == project_data[k]
           IN  /\ (jobs[p] = "running" /\ jobs'[p] = "succeeded" /\ Partial(p))
                    => (pc' = "filter" /\ cur' = k)
               /\ (pc = "filter" /\ cur = k /\ Partial(p))
                    => /\ FilterStep
                       /\ last'.project = p
                       /\ last'.status = "ok" =>
                            /\ p \in filtered'
                            /\ \A n \in DOMAIN out[p] :
                                  (/\ Contains(n, R1_TAG)
                                   /\ Mate2(n) \in DOMAIN out[p]
                                   /\ \/ out[p][n] <= MinimumBytes
                                      \/ out[p][Mate2(n)] <= MinimumBytes)
                                  => {n, Mate2(n)} \subseteq DOMAIN quar'[p].files ]_vars

\* run has called _filter on the directories of a project whose job had
\* partial results
C16_Witness ==
    \E p \in ProjectNames :
       /\ pc # "idle"
       /\ jobs[p] = "succeeded"
       /\ Partial(p)
       /\ last.status # "none"
       /\ last.project = p

(***************************************************************************)
(* C17. When the job of a project is submitted, its job script and the     *)
(* command table the script names are written, the table holding the       *)
(* commands of the project; once the job is submitted, neither file is     *)
(* written again.                                                          *)
(***************************************************************************)
C17_WriteThenSubmit ==
    [][ \A p \in ProjectNames :
           /\ jobs'[p] # "none" =>
                 /\ scripts'[p].exists
                 /\ scripts'[p].directive
                       = ArrayDirective(Len(gen'[p].cmds), pool_size')
                 /\ tables'[scripts'[p].sh_details_fp].exists
                 /\ SplitLines(tables'[scripts'[p].sh_details_fp].content, <<>>)
                       = gen'[p].cmds
           /\ jobs[p] # "none" =>
                 /\ scripts'[p] = scripts[p]
                 /\ tables'[scripts[p].sh_details_fp]
                       = tables[scripts[p].sh_details_fp] ]_vars

\* the job of a project has run its tasks and completed, its script and its
\* command table being on disk
C17_Witness ==
    \E p \in ProjectNames :
       /\ jobs[p] = "succeeded"
       /\ executed[p] # {}
       /\ scripts[p].exists
       /\ tables[scripts[p].sh_details_fp].exists

\* Python's  s.startswith(prefix)
StartsWith(s, prefix) ==
    Len(s) >= Len(prefix) /\ SubSeq(s, 1, Len(prefix)) = prefix

(***************************************************************************)
(* C18. _clear_trim_files removes exactly the files of the run directory   *)
(* whose name begins with 'split_file_', and leaves every other file, a    *)
(* file whose name holds the prefix elsewhere included.                    *)
(***************************************************************************)
C18_RemovesExactlyPrefixed ==
    rundir.cleared =>
       rundir.files = {f \in rundir.before : ~StartsWith(f.name, SPLIT_FILE_PREFIX)}

\* where run is, once the object is constructed
RunPhases == {"constructed", "qsub", "waiting", "filter", "finished", "aborted"}

(***************************************************************************)
(* C21. The job scripts and command tables of all projects are generated   *)
(* in the constructor, before any submission: run only starts when the     *)
(* files of every project are generated, a job is only submitted then,     *)
(* when generation has failed for a project no job is submitted for any    *)
(* project, and run writes no script and no command table.                 *)
(***************************************************************************)
C21_GenerateAllThenSubmit ==
    [][ /\ pc' \in RunPhases =>
              \A p \in ProjectNames :
                 /\ gen'[p].state = "done"
                 /\ scripts'[p].exists
                 /\ tables'[ShDetailsFp(p)].exists
        /\ (\E p \in ProjectNames : jobs'[p] # jobs[p]) =>
              /\ pc \in RunPhases
              /\ \A p \in ProjectNames : gen[p].state = "done"
        /\ (\E p \in ProjectNames : gen'[p].state = "failed") =>
              \A p \in ProjectNames : jobs'[p] = "none"
        /\ pc \in RunPhases =>
              /\ scripts' = scripts
              /\ tables' = tables
              /\ gen' = gen ]_vars

\* generation has failed for the second project, the files of the first
\* being written, and no job is submitted
C21_Witness ==
    /\ pc = "ctor_failed"
    /\ gen[project_data[1]].state = "done"
    /\ scripts[project_data[1]].exists
    /\ tables[ShDetailsFp(project_data[1])].exists
    /\ gen[project_data[2]].state = "failed"
    /\ \A p \in ProjectNames : jobs[p] = "none"

====
